---- MODULE Spec2Model ----
(***************************************************************************)
(* page_tree (src/page_tree.h): a page-granular multiway tree mapping      *)
(* 64-bit indexes to fixed-size values, duplicates allowed.                *)
(*                                                                         *)
(* Memory model.  A page is max_entry_per_node index words followed by     *)
(* max_entry_per_node cells.  The instance modelled is constructed with    *)
(* value_malloc_size = sizeof(t_node), so value i and t_node i of a page   *)
(* are the same bytes: one cell.  A cell carries                           *)
(*   val   the caller's payload held intact in it (0: none), and           *)
(*   ptr, count   the t_node the code wrote into it; ptr = Unread for a    *)
(*         cell the code never wrote a t_node into.  Reading such a cell   *)
(*         as a t_node is a read of bytes the program does not control     *)
(*         (a payload, or memory never written): it yields an arbitrary    *)
(*         descriptor, cast.  The model draws cast once, at the first such *)
(*         read, from CastNodes, and every such cell reads as cast: the    *)
(*         bytes do not change by being read.                              *)
(* Operations that can end in several ways (allocation failure, arbitrary  *)
(* bytes) are operators yielding the set of their outcomes.                *)
(***************************************************************************)
EXTENDS Integers, Sequences, FiniteSets, TLC

(* Bounds of the model. max_entry_per_node is 4096 / sizeof(t_idx) = 512   *)
(* in the program (page_tree.h:328); the model scales it down.             *)
max_entry_per_node == 4
NumKeys == 2
MaxInserts == 5
MaxPages == 3
MaxOcc == 1

KeyOrder == <<3, 5, 9, 7, 1, 11, 13, 15>>
Keys == {KeyOrder[n] : n \in 1..NumKeys}
(* indexes find is asked for: the ones inserted, and 0 *)
FindKeys == Keys \cup {0}
(* what a never-written index word of a page handed out by the arena holds *)
FillWords == {0, KeyOrder[NumKeys]}

Cap == max_entry_per_node
Slots == 0..(Cap - 1)

NULL == 0
Unread == -1

VARIABLES pages, tree_root, tree_depth, cast, inserted, failed, ret, crashed

vars == <<pages, tree_root, tree_depth, cast, inserted, failed, ret, crashed>>

(* ---------------------------------------------------------------------- *)
(* struct t_node and the page layout                                       *)

t_node(p, c) == [ptr |-> p, count |-> c]

FreshCell == [val |-> 0, ptr |-> Unread, count |-> 0]

(* the cell after the caller wrote payload number tok into the value slot *)
PayloadCell(tok) == [val |-> tok, ptr |-> Unread, count |-> 0]

(* the cell after the code wrote a t_node over it *)
NodeCell(n) == [val |-> 0, ptr |-> n.ptr, count |-> n.count]

FreshPage(is_leaf, fill) ==
    [leaf |-> is_leaf, idx |-> [j \in Slots |-> fill], cell |-> [j \in Slots |-> FreshCell]]

(* a location holding a t_node: the tree handle (page 0), cell i of a page, *)
(* or the local t_node declared by the call frame above depth d (page -1)   *)
RootLoc == [page |-> 0, i |-> 0]
CellLoc(p, i) == [page |-> p, i |-> i]
LocalLoc(d) == [page |-> -1, i |-> d]

NoNode == [ptr |-> 0, count |-> 0]

(* the program memory threaded through the recursive calls *)
Mem(pg, root, cst) ==
    [pages |-> pg, root |-> root, cast |-> cst, locals |-> [d \in 0..(MaxInserts + 2) |-> NoNode]]

node_to_idx(st, ptr) == st.pages[ptr].idx

node_to_subnode(ptr, i) == CellLoc(ptr, i)

node_to_value(ptr, i) == [kind |-> "slot", page |-> ptr, i |-> i]

NullResult == [kind |-> "null", page |-> 0, i |-> 0]
CrashResult == [kind |-> "crash", page |-> 0, i |-> 0]
(* no result: the call was left by the exception *)
ThrownResult == [kind |-> "thrown", page |-> 0, i |-> 0]

ReadNode(st, loc) ==
    IF loc.page = 0 THEN st.root
    ELSE IF loc.page = -1 THEN st.locals[loc.i]
    ELSE IF st.pages[loc.page].cell[loc.i].ptr = Unread THEN st.cast
    ELSE t_node(st.pages[loc.page].cell[loc.i].ptr, st.pages[loc.page].cell[loc.i].count)

WriteNode(st, loc, n) ==
    IF loc.page = 0 THEN [st EXCEPT !.root = n]
    ELSE IF loc.page = -1 THEN [st EXCEPT !.locals[loc.i] = n]
    ELSE [st EXCEPT !.pages[loc.page].cell[loc.i] = NodeCell(n)]

(* a pointer that is the address of a page of the arena *)
IsPage(st, ptr) == ptr \in 1..Len(st.pages)

(* the descriptors arbitrary bytes are read as: a pointer to no page or to  *)
(* one of the arena's pages (allocated yet or not), with any count up to a  *)
(* page's capacity, or a count no page can hold (Cap + 1 stands for all)    *)
CastNodes == {t_node(p, c) : p \in 0..MaxPages, c \in 0..(Cap + 1)}

(* a descriptor the code can follow without leaving the arena's pages *)
Valid(st, n) == IsPage(st, n.ptr) /\ n.count <= Cap

(* the memories after the t_node at loc was read *)
ReadAsNode(st, loc) ==
    IF loc.page <= 0 THEN {st}
    ELSE IF st.pages[loc.page].cell[loc.i].ptr # Unread \/ st.cast.ptr # Unread THEN {st}
    ELSE {[st EXCEPT !.cast = n] : n \in CastNodes}

(* ---------------------------------------------------------------------- *)
(* the arena: alloc(size, alignment) -> pointer or failure                  *)

mm_alloc(st, is_leaf) ==
    {[ok |-> FALSE, st |-> st, ptr |-> NULL]}
        \cup (IF Len(st.pages) < MaxPages
              THEN {[ok |-> TRUE,
                     st |-> [st EXCEPT !.pages = Append(@, FreshPage(is_leaf, fill))],
                     ptr |-> Len(st.pages) + 1] : fill \in FillWords}
              ELSE {})

alloc_node_page(st) == mm_alloc(st, FALSE)

alloc_leaf_page(st) == mm_alloc(st, TRUE)

(* ---------------------------------------------------------------------- *)
(* binsearch_index                                                         *)

(* binsearch_index without the loop of lines 116-117 *)
StayAtMatch(ary, mid, value) == mid

RECURSIVE BackToRunStart(_, _, _)
BackToRunStart(ary, mid, value) ==
    IF mid # 0 /\ ary[mid - 1] = value THEN BackToRunStart(ary, mid - 1, value) ELSE mid

RECURSIVE binsearch_loop(_, _, _, _)
binsearch_loop(value, ary, min, max) ==
    LET mid == (min + max) \div 2 IN
    IF ary[mid] > value
    THEN IF mid = 0 THEN -1
         ELSE IF mid = min THEN mid - 1
         ELSE binsearch_loop(value, ary, min, mid - 1)
    ELSE IF ary[mid] = value
    THEN BackToRunStart(ary, mid, value)
    ELSE IF mid = max THEN mid
         ELSE binsearch_loop(value, ary, mid + 1, max)

binsearch_index(value, ary, count) ==
    IF count = 0 THEN -1 ELSE binsearch_loop(value, ary, 0, count - 1)

(* ---------------------------------------------------------------------- *)
(* split_node                                                              *)

RECURSIVE SkipLeadingRun(_, _)
SkipLeadingRun(p_idx, split_idx) ==
    IF p_idx[split_idx] = p_idx[0] THEN SkipLeadingRun(p_idx, split_idx + 1) ELSE split_idx

RECURSIVE BackBeforeRun(_, _)
BackBeforeRun(p_idx, split_idx) ==
    IF split_idx > 0 /\ p_idx[split_idx] = p_idx[split_idx - 1]
    THEN BackBeforeRun(p_idx, split_idx - 1)
    ELSE split_idx

(* split_node without the adjustment of lines 204-219: the naive midpoint *)
split_index_midpoint(p_idx, count) == count \div 2

split_index(p_idx, count) ==
    LET mid == count \div 2 IN
    IF p_idx[mid] = p_idx[0]
    THEN IF p_idx[count - 1] # p_idx[0] THEN SkipLeadingRun(p_idx, mid) ELSE mid
    ELSE BackBeforeRun(p_idx, mid)

(* the index words memmove'd into the new page: new_count words starting   *)
(* at the old page's first word                                            *)
moved_indexes(old_idx, split_idx, new_count, fill_idx) ==
    [j \in Slots |-> IF j < new_count THEN old_idx[j] ELSE fill_idx[j]]

(* the values or subnodes memmove'd: new_count cells starting at split_idx *)
moved_cells(old_cell, split_idx, new_count, fill_cell) ==
    [j \in Slots |-> IF j < new_count THEN old_cell[split_idx + j] ELSE fill_cell[j]]

(* outcomes: kind "ok" with the new node, "bad_alloc", or "crash" (the old  *)
(* node's pointer is no page). split records what the split did.           *)
split_node(st, old_loc, new_loc, is_leaf) ==
    LET old == ReadNode(st, old_loc) IN
    IF ~Valid(st, old)
    THEN {[kind |-> "crash", st |-> st, split |-> <<>>]}
    ELSE
    LET p_idx == node_to_idx(st, old.ptr)
        split_idx == split_index(p_idx, old.count)
        new_count == old.count - split_idx
        st1 == WriteNode(WriteNode(st, new_loc, t_node(ReadNode(st, new_loc).ptr, new_count)),
                         old_loc, t_node(old.ptr, split_idx))
        old_page == st1.pages[old.ptr]
        rec(new_ptr, new_idx) ==
            <<[loc |-> old_loc, is_leaf |-> is_leaf, old_ptr |-> old.ptr, new_ptr |-> new_ptr,
               before |-> [j \in 0..(old.count - 1) |-> p_idx[j]],
               split_idx |-> split_idx, new_count |-> new_count,
               new_idx |-> [j \in 0..(new_count - 1) |-> new_idx[j]]]>>
    IN  { IF ~a.ok
          THEN [kind |-> "bad_alloc", st |-> st1, split |-> rec(NULL, p_idx)]
          ELSE LET fresh == a.st.pages[a.ptr]
                   new_idx == moved_indexes(old_page.idx, split_idx, new_count, fresh.idx)
                   new_cell == moved_cells(old_page.cell, split_idx, new_count, fresh.cell)
               IN [kind |-> "ok",
                   st |-> WriteNode([a.st EXCEPT !.pages[a.ptr].idx = new_idx,
                                                 !.pages[a.ptr].cell = new_cell],
                                    new_loc, t_node(a.ptr, new_count)),
                   split |-> rec(a.ptr, new_idx)]
          : a \in (IF is_leaf THEN alloc_leaf_page(st1) ELSE alloc_node_page(st1)) }

(* ---------------------------------------------------------------------- *)
(* insert_rec                                                              *)

Outcome(kind, st, r, splits) == [kind |-> kind, st |-> st, ret |-> r, splits |-> splits]

Crashed(st) == Outcome("crash", st, CrashResult, <<>>)

(* split_node did not return: std::bad_alloc, or the crash, unwinds the call *)
Unwound(s, splits) ==
    Outcome(s.kind, s.st, IF s.kind = "bad_alloc" THEN ThrownResult ELSE CrashResult, splits)

(* the position binsearch_index gives for a new key: lines 256-261, 307-311 *)
insert_position(idx, p_idx, count) ==
    LET found == binsearch_index(idx, p_idx, count)
        i == IF found < 0 THEN 0 ELSE found
    IN IF i < count /\ p_idx[i] < idx THEN i + 1 ELSE i

(* memmove of one index word and one cell from position i to i + 1 *)
make_room(st, ptr, i) ==
    [st EXCEPT !.pages[ptr].idx[i + 1] = st.pages[ptr].idx[i],
               !.pages[ptr].cell[i + 1] = st.pages[ptr].cell[i]]

(* lines 255-271: put idx into the leaf described by the t_node at leaf_loc *)
insert_into_leaf(st, idx, leaf_loc, splits) ==
    LET leaf == ReadNode(st, leaf_loc) IN
    IF ~Valid(st, leaf) \/ leaf.count >= Cap THEN {Crashed(st)}
    ELSE
    LET i == insert_position(idx, node_to_idx(st, leaf.ptr), leaf.count)
        st1 == IF i < leaf.count THEN make_room(st, leaf.ptr, i) ELSE st
    IN UNION { LET now == ReadNode(st2, leaf_loc) IN
               IF ~Valid(st2, now) THEN {Crashed(st2)}
               ELSE {Outcome("ok",
                             WriteNode([st2 EXCEPT !.pages[now.ptr].idx[i] = idx],
                                       leaf_loc, t_node(now.ptr, now.count + 1)),
                             node_to_value(now.ptr, i), splits)}
             : st2 \in ReadAsNode(st1, leaf_loc) }

(* lines 250-252 and 301-303: after the split of a full page, the node the *)
(* pending entry goes to. key is idx at a leaf and newleaf_idx at an        *)
(* interior page; sibling_first is the first key word of the sibling page.  *)
chosen_half(is_leaf, key, sibling_first, curnode, sibling) ==
    IF is_leaf
    THEN IF key >= sibling_first THEN sibling ELSE curnode
    ELSE IF sibling_first >= key THEN sibling ELSE curnode

(* lines 243-272: the leaf level *)
insert_rec_leaf(st, idx, curnode, sibling) ==
    IF ReadNode(st, curnode).count >= Cap
    THEN UNION { IF s.kind # "ok" THEN {Unwound(s, s.split)}
                 ELSE insert_into_leaf(s.st, idx,
                         chosen_half(TRUE, idx, node_to_idx(s.st, ReadNode(s.st, sibling).ptr)[0],
                                     curnode, sibling),
                         s.split)
               : s \in split_node(st, curnode, sibling, TRUE) }
    ELSE insert_into_leaf(st, idx, curnode, <<>>)

(* lines 306-317: make room for the new subnode in the page of the t_node  *)
(* at node_loc; neither the key nor the subnode is stored, and the count   *)
(* is left as it was                                                       *)
make_room_for_subnode(st, newleaf_idx, node_loc, r, splits) ==
    UNION { LET node == ReadNode(st1, node_loc) IN
            IF ~Valid(st1, node) \/ node.count >= Cap THEN {Crashed(st1)}
            ELSE LET i == insert_position(newleaf_idx, node_to_idx(st1, node.ptr), node.count)
                 IN {Outcome("ok", IF i < node.count THEN make_room(st1, node.ptr, i) ELSE st1,
                             r, splits)}
          : st1 \in ReadAsNode(st, node_loc) }

(* lines 293-319: the child was split *)
insert_splitted(st, curnode, sibling, splitted, r, splits) ==
    LET newleaf_idx == node_to_idx(st, ReadNode(st, splitted).ptr)[0] IN
    UNION { IF ReadNode(st1, curnode).count >= Cap
            THEN UNION { IF s.kind # "ok" THEN {Unwound(s, splits \o s.split)}
                         ELSE make_room_for_subnode(s.st, newleaf_idx,
                                 chosen_half(FALSE, newleaf_idx,
                                             node_to_idx(s.st, ReadNode(s.st, sibling).ptr)[0],
                                             curnode, sibling),
                                 r, splits \o s.split)
                       : s \in split_node(st1, curnode, sibling, FALSE) }
            ELSE make_room_for_subnode(st1, newleaf_idx, curnode, r, splits)
          : st1 \in ReadAsNode(st, curnode) }

(* lines 285-291: after the recursive call into subnode i of page ptr *)
insert_rec_return(c, ptr, i, curnode, sibling, splitted) ==
    IF c.kind # "ok" THEN {c}
    ELSE UNION { LET sub == ReadNode(st1, node_to_subnode(ptr, i)) IN
                 IF ~IsPage(st1, sub.ptr) THEN {Crashed(st1)}
                 ELSE LET sub_idx == node_to_idx(st1, sub.ptr)[0]
                          st2 == IF sub_idx < node_to_idx(st1, ptr)[i]
                                 THEN [st1 EXCEPT !.pages[ptr].idx[i] = sub_idx]
                                 ELSE st1
                      IN IF ReadNode(st2, splitted).ptr = NULL
                         THEN {Outcome("ok", st2, c.ret, c.splits)}
                         ELSE insert_splitted(st2, curnode, sibling, splitted, c.ret, c.splits)
               : st1 \in ReadAsNode(c.st, node_to_subnode(ptr, i)) }

(* insert_rec(idx, curnode, sibling, depth): curnode and sibling are the     *)
(* locations of the two t_nodes; the frame's own splitted is LocalLoc(depth) *)
RECURSIVE insert_rec(_, _, _, _, _)
insert_rec(st, idx, curnode, sibling, depth) ==
    IF depth = 0 THEN insert_rec_leaf(st, idx, curnode, sibling)
    ELSE
    LET cur == ReadNode(st, curnode) IN
    IF ~Valid(st, cur) THEN {Crashed(st)}
    ELSE
    LET found == binsearch_index(idx, node_to_idx(st, cur.ptr), cur.count)
        i == IF found < 0 THEN 0 ELSE found
        splitted == LocalLoc(depth)
        st0 == WriteNode(st, splitted, NoNode)
    IN UNION { UNION { insert_rec_return(c, cur.ptr, i, curnode, sibling, splitted)
                     : c \in insert_rec(st1, idx, node_to_subnode(cur.ptr, i), splitted, depth - 1) }
             : st1 \in ReadAsNode(st0, node_to_subnode(cur.ptr, i)) }

(* insert with the test of line 353 dropped: the depth grows in every call  *)
(* that returns                                                            *)
insert_always_deeper(st, depth, idx) ==
    LET newnode == LocalLoc(depth + 1) IN
    { [kind |-> o.kind, st |-> o.st, ret |-> o.ret, splits |-> o.splits,
       depth |-> IF o.kind = "ok" THEN depth + 1 ELSE depth]
      : o \in insert_rec(WriteNode(st, newnode, NoNode), idx, RootLoc, newnode, depth) }

(* lines 348-360: insert; newnode is LocalLoc(tree_depth + 1). Outcomes     *)
(* carry the depth after the call.                                         *)
insert(st, depth, idx) ==
    LET newnode == LocalLoc(depth + 1) IN
    { [kind |-> o.kind, st |-> o.st, ret |-> o.ret, splits |-> o.splits,
       depth |-> IF o.kind = "ok" /\ ReadNode(o.st, newnode).ptr # NULL THEN depth + 1 ELSE depth]
      : o \in insert_rec(WriteNode(st, newnode, NoNode), idx, RootLoc, newnode, depth) }

(* ---------------------------------------------------------------------- *)
(* find_rec                                                                *)

Found(st, res, sub_idx) == [st |-> st, res |-> res, sub_idx |-> sub_idx]

(* find_in_leaf with line 155 written `p_idx[ i ] = idx`: the word is      *)
(* assigned, and the test is of the value assigned                         *)
find_in_leaf_assigning(st, idx, sub_idx, ptr, count, i) ==
    IF sub_idx >= 0 /\ sub_idx < count - i
    THEN LET st1 == [st EXCEPT !.pages[ptr].idx[i + sub_idx] = idx] IN
         IF idx # 0
         THEN Found(st1, node_to_value(ptr, i + sub_idx), sub_idx)
         ELSE Found(st1, NullResult, -1)
    ELSE Found(st, NullResult, sub_idx - (count - i))

(* lines 151-165: idx was found at position i of the leaf *)
find_in_leaf(st, idx, sub_idx, ptr, count, i) ==
    IF sub_idx >= 0 /\ sub_idx < count - i
    THEN IF node_to_idx(st, ptr)[i + sub_idx] = idx
         THEN Found(st, node_to_value(ptr, i + sub_idx), sub_idx)
         ELSE Found(st, NullResult, -1)
    ELSE Found(st, NullResult, sub_idx - (count - i))

RECURSIVE find_rec(_, _, _, _, _, _)
RECURSIVE find_run(_, _, _, _, _, _, _)

(* lines 169-179: the run of subnodes whose index equals idx, from i on *)
find_run(st, idx, sub_idx, ptr, count, depth, i) ==
    IF i < count /\ node_to_idx(st, ptr)[i] = idx
    THEN UNION { UNION { IF o.res.kind # "null" THEN {o}
                         ELSE IF o.sub_idx < 0 THEN {o}
                         ELSE find_run(o.st, idx, o.sub_idx, ptr, count, depth, i + 1)
                       : o \in find_rec(st1, idx, sub_idx,
                                        ReadNode(st1, node_to_subnode(ptr, i)).ptr,
                                        ReadNode(st1, node_to_subnode(ptr, i)).count,
                                        depth - 1) }
               : st1 \in ReadAsNode(st, node_to_subnode(ptr, i)) }
    ELSE {Found(st, NullResult, sub_idx)}

find_rec(st, idx, sub_idx, ptr, count, depth) ==
    IF count = 0 THEN {Found(st, NullResult, sub_idx)}
    ELSE IF ~Valid(st, t_node(ptr, count)) THEN {Found(st, CrashResult, sub_idx)}
    ELSE
    LET p_idx == node_to_idx(st, ptr)
        i == binsearch_index(idx, p_idx, count)
    IN
    IF i < 0 THEN {Found(st, NullResult, sub_idx)}
    ELSE IF p_idx[i] = idx
    THEN IF depth = 0
         THEN {find_in_leaf(st, idx, sub_idx, ptr, count, i)}
         ELSE find_run(st, idx, sub_idx, ptr, count, depth, i)
    ELSE IF depth = 0
         THEN {Found(st, NullResult, sub_idx)}
         ELSE UNION { find_rec(st1, idx, sub_idx,
                               ReadNode(st1, node_to_subnode(ptr, i)).ptr,
                               ReadNode(st1, node_to_subnode(ptr, i)).count,
                               depth - 1)
                    : st1 \in ReadAsNode(st, node_to_subnode(ptr, i)) }

(* lines 339-342 *)
find(st, depth, idx, sub_idx) ==
    find_rec(st, idx, sub_idx, st.root.ptr, st.root.count, depth)

(* ---------------------------------------------------------------------- *)
(* the tree's life                                                         *)

Returned(op, idx, occ, kind, res, splits) ==
    [op |-> op, idx |-> idx, occ |-> occ, kind |-> kind, res |-> res, splits |-> splits]

(* lines 324-333: the constructor allocated the root leaf *)
Init ==
    /\ \E fill \in FillWords : pages = <<FreshPage(TRUE, fill)>>
    /\ tree_root = t_node(1, 0)
    /\ tree_depth = 0
    /\ cast = t_node(Unread, 0)
    /\ inserted = [k \in Keys |-> 0]
    /\ failed = FALSE
    /\ ret = Returned("new", 0, 0, "ok", NullResult, <<>>)
    /\ crashed = FALSE

RECURSIVE Sum(_, _)
Sum(f, S) == IF S = {} THEN 0 ELSE LET x == CHOOSE y \in S : TRUE IN f[x] + Sum(f, S \ {x})

(* insert(idx), and the caller's write of the payload into the slot it got. *)
(* inserted[k] counts the successful inserts of k; the payload written for  *)
(* the n-th of them (n = 1, 2, ...) is n. failed: some call ended in        *)
(* bad_alloc. budget: the successful calls the run makes at most.           *)
Insert(idx, budget) ==
    /\ ~crashed
    /\ Sum(inserted, Keys) < budget
    /\ \E o \in insert(Mem(pages, tree_root, cast), tree_depth, idx) :
          /\ ret' = Returned("insert", idx, 0, o.kind, o.ret, o.splits)
          /\ crashed' = (o.kind = "crash")
          /\ failed' = (failed \/ o.kind = "bad_alloc")
          /\ cast' = o.st.cast
          /\ IF o.kind = "crash"
             THEN UNCHANGED <<pages, tree_root, tree_depth, inserted>>
             ELSE /\ tree_root' = o.st.root
                  /\ tree_depth' = o.depth
                  /\ IF o.kind = "ok"
                     THEN /\ pages' = [o.st.pages EXCEPT ![o.ret.page].cell[o.ret.i] =
                                                            PayloadCell(inserted[idx] + 1)]
                          /\ inserted' = [inserted EXCEPT ![idx] = @ + 1]
                     ELSE /\ pages' = o.st.pages
                          /\ inserted' = inserted

(* find(idx, occ) *)
Find(idx, occ) ==
    /\ ~crashed
    /\ \E o \in find(Mem(pages, tree_root, cast), tree_depth, idx, occ) :
          /\ ret' = Returned("find", idx, occ, o.res.kind, o.res, <<>>)
          /\ crashed' = (o.res.kind = "crash")
          /\ cast' = o.st.cast
          /\ IF o.res.kind = "crash" THEN UNCHANGED pages ELSE pages' = o.st.pages
          /\ UNCHANGED <<tree_root, tree_depth, inserted, failed>>

(* a client that inserts and looks up: enough calls to fill the root page  *)
(* and split it                                                            *)
Next ==
    \/ \E idx \in Keys : Insert(idx, MaxInserts)
    \/ \E idx \in FindKeys, occ \in 0..MaxOcc : Find(idx, occ)

Spec == Init /\ [][Next]_vars

(* a client that only inserts, one call further: the last call finds the   *)
(* tree one level deep                                                     *)
NextInsert == \E idx \in Keys : Insert(idx, MaxInserts + 1)

SpecInsert == Init /\ [][NextInsert]_vars

(* ---------------------------------------------------------------------- *)
(* the tree as the code reads it                                           *)

Here == Mem(pages, tree_root, cast)

(* the outcomes of find(idx, occ) on the tree as it stands *)
Lookup(idx, occ) == find(Here, tree_depth, idx, occ)

RECURSIVE pages_below(_, _, _)
RECURSIVE subnodes_below(_, _, _, _)

(* the descriptors of the pages of the subtree of n, n first, each with    *)
(* its height above the leaves; a descriptor that leads nowhere has none   *)
pages_below(st, n, depth) ==
    IF ~Valid(st, n) THEN <<>>
    ELSE <<[node |-> n, depth |-> depth]>>
            \o (IF depth = 0 THEN <<>> ELSE subnodes_below(st, n, depth, 0))

subnodes_below(st, n, depth, i) ==
    IF i >= n.count THEN <<>>
    ELSE pages_below(st, ReadNode(st, node_to_subnode(n.ptr, i)), depth - 1)
            \o subnodes_below(st, n, depth, i + 1)

TreePages == pages_below(Here, tree_root, tree_depth)

Leaves == SelectSeq(TreePages, LAMBDA e : e.depth = 0)

(* how many valid entries of page n hold index k *)
EntriesWith(n, k) == Cardinality({j \in 0..(n.count - 1) : pages[n.ptr].idx[j] = k})

RECURSIVE SumSeq(_)
SumSeq(q) == IF q = <<>> THEN 0 ELSE Head(q) + SumSeq(Tail(q))

StoredWith(k) == SumSeq([j \in 1..Len(Leaves) |-> EntriesWith(Leaves[j].node, k)])

Stored == SumSeq([j \in 1..Len(Leaves) |-> Leaves[j].node.count])

RootSplit(r) == \E j \in 1..Len(r.splits) : r.splits[j].loc = RootLoc /\ r.splits[j].new_ptr # NULL

(* ---------------------------------------------------------------------- *)
(* C1: after any inserts, find(k, i) returns the slot that holds the        *)
(* payload written for the i-th insertion of k, for every i below the      *)
(* number of insertions of k.                                              *)
C1_RoundTrip ==
    \A k \in Keys : \A i \in 0..(inserted[k] - 1) :
        \A o \in Lookup(k, i) :
            /\ o.res.kind = "slot"
            /\ pages[o.res.page].cell[o.res.i].val = i + 1

(* C2: find(k, occ) is not-found when k was never inserted and when occ is *)
(* at least the number of insertions of k, and a slot it returns is the    *)
(* slot of an entry with index k.                                          *)
C2_LookupMiss ==
    \A k \in FindKeys : \A occ \in 0..(MaxInserts + 1) :
        \A o \in Lookup(k, occ) :
            /\ (k \notin Keys \/ occ >= inserted[k]) => o.res.kind = "null"
            /\ o.res.kind = "slot" => pages[o.res.page].idx[o.res.i] = k

(* C3: after n successful inserts (no call failed), the entries of the     *)
(* leaves reachable from the root are the n inserted indexes, each as      *)
(* often as it was inserted.                                               *)
C3_NoEntryLost ==
    (~failed /\ ~crashed) =>
        /\ \A k \in Keys : StoredWith(k) = inserted[k]
        /\ Stored = Sum(inserted, Keys)

(* C4: in every page reachable from the root the valid index words are in  *)
(* non-decreasing order.                                                   *)
C4_Sorted ==
    \A e \in 1..Len(TreePages) :
        LET n == TreePages[e].node IN
        \A j \in 1..(n.count - 1) : pages[n.ptr].idx[j - 1] <= pages[n.ptr].idx[j]

(* the splits the last insert call completed (the sibling page was allocated) *)
Splits == IF ret.op = "insert" /\ ret.kind = "ok" THEN ret.splits ELSE <<>>

(* the first n index words of page ptr *)
KeysOf(ptr, n) == {pages[ptr].idx[j] : j \in 0..(n - 1)}

(* the t_node of the page a split truncated, and of its new sibling, as    *)
(* the insert call left them                                               *)
LeftOf(sp) == ReadNode(Here, sp.loc)

RightOf(sp) ==
    t_node(sp.new_ptr, sp.new_count + (IF ret.res.kind = "slot" /\ ret.res.page = sp.new_ptr THEN 1 ELSE 0))

(* C5: when a leaf L and the leaf L' to its right (the two halves a leaf   *)
(* split left, after the insert that split them) are such that the last    *)
(* key of L equals the first key k of L', every key of L equals k.         *)
C5_NoStraddle ==
    \A j \in 1..Len(Splits) :
        LET sp == Splits[j]
            L == LeftOf(sp)
            R == RightOf(sp)
        IN (sp.is_leaf /\ L.count > 0 /\ R.count > 0
                /\ pages[L.ptr].idx[L.count - 1] = pages[R.ptr].idx[0])
            => KeysOf(L.ptr, L.count) = {pages[R.ptr].idx[0]}

(* C6: a page that has a sibling to its right at its level (the page a     *)
(* split truncated) holds at least capacity / 2 valid entries.             *)
C6_MinOccupancy ==
    \A j \in 1..Len(Splits) : LeftOf(Splits[j]).count >= Cap \div 2

(* C7: when split_node splits a page whose keys are not all equal, no key  *)
(* is both among the keys left in the truncated page and among the keys of *)
(* the new sibling page.                                                   *)
C7_RunNotSplit ==
    \A j \in 1..Len(Splits) :
        LET sp == Splits[j]
            before == {sp.before[n] : n \in DOMAIN sp.before}
        IN Cardinality(before) > 1 =>
              {sp.before[n] : n \in 0..(sp.split_idx - 1)}
                  \cap {sp.new_idx[n] : n \in DOMAIN sp.new_idx} = {}

(* C8: across an insert call the depth stays or grows by exactly one, and  *)
(* it grows only in a call that split the root page.                       *)
C8_DepthGrowth ==
    [][/\ tree_depth' \in {tree_depth, tree_depth + 1}
       /\ tree_depth' = tree_depth + 1 => (ret'.op = "insert" /\ RootSplit(ret'))]_vars

(* C8 witness: an insert call split the root page and the depth is 1 *)
C8_RootWasSplit == tree_depth = 1 /\ ret.op = "insert" /\ ret.kind = "ok" /\ RootSplit(ret)

(* C9: an insert call in which the arena cannot supply a page ends in      *)
(* bad_alloc, returns no slot, and leaves the root descriptor, the depth   *)
(* and every page as they were before the call.                            *)
C9_FailedAllocLeavesTree ==
    [][(ret'.op = "insert" /\ ret'.kind = "bad_alloc") =>
          /\ ret'.res = ThrownResult
          /\ UNCHANGED <<pages, tree_root, tree_depth>>]_vars

(* C10: a find call leaves every page, the root descriptor and the depth   *)
(* unchanged, and a find(k, i) that follows a find(k, i) returns the same  *)
(* result.                                                                 *)
C10_FindReadOnly ==
    [][ret'.op = "find" =>
          /\ UNCHANGED <<pages, tree_root, tree_depth>>
          /\ (ret.op = "find" /\ ret.idx = ret'.idx /\ ret.occ = ret'.occ) => ret'.res = ret.res]_vars

(* C10 witness: a find call returned the slot of an entry of a tree that   *)
(* holds several                                                           *)
C10_FindReturnedSlot ==
    ret.op = "find" /\ ret.res.kind = "slot" /\ Sum(inserted, Keys) > 1

(* ---------------------------------------------------------------------- *)
(* the entries of the leaves, left to right                                *)

RECURSIVE slots_with(_, _, _)
(* the slots of leaf n, from position j on, whose index word is k *)
slots_with(n, k, j) ==
    IF j >= n.count THEN <<>>
    ELSE (IF pages[n.ptr].idx[j] = k THEN <<node_to_value(n.ptr, j)>> ELSE <<>>)
            \o slots_with(n, k, j + 1)

RECURSIVE Flatten(_)
Flatten(q) == IF q = <<>> THEN <<>> ELSE Head(q) \o Flatten(Tail(q))

(* the slots of the entries with index k, in left-to-right leaf order *)
EntrySlots(k) == Flatten([j \in 1..Len(Leaves) |-> slots_with(Leaves[j].node, k, 0)])

(* C11: when one key k alone was inserted n times (no call failed),        *)
(* find(k, i) returns for every i < n the slot of the i-th entry of k in   *)
(* left-to-right leaf order, the n slots are pairwise distinct, and        *)
(* find(k, n) is not-found.                                                *)
C11_OccurrenceThreading ==
    \A k \in Keys :
        (inserted[k] = Sum(inserted, Keys) /\ ~failed /\ ~crashed) =>
            /\ \A i \in 0..(inserted[k] - 1) : \A o \in Lookup(k, i) :
                  /\ o.res.kind = "slot"
                  /\ i < Len(EntrySlots(k))
                  /\ o.res = EntrySlots(k)[i + 1]
            /\ \A i, j \in 0..(inserted[k] - 1) :
                  \A o \in Lookup(k, i), q \in Lookup(k, j) : i # j => o.res # q.res
            /\ \A o \in Lookup(k, inserted[k]) : o.res.kind = "null"

(* the record of the split of the root page in the call r *)
RootSplitOf(r) == r.splits[CHOOSE j \in 1..Len(r.splits) : r.splits[j].loc = RootLoc]

(* the root is an interior page of two entries: the page sp truncated and  *)
(* its new sibling, each under its first key and with its entry count      *)
WrapsRoot(sp) ==
    /\ IsPage(Here, tree_root.ptr)
    /\ tree_root.ptr \notin {sp.old_ptr, sp.new_ptr}
    /\ ~pages[tree_root.ptr].leaf
    /\ tree_root.count = 2
    /\ LET root == pages[tree_root.ptr] IN
       /\ root.cell[0].ptr = sp.old_ptr
       /\ root.cell[1].ptr = sp.new_ptr
       /\ root.idx[0] = pages[sp.old_ptr].idx[0]
       /\ root.idx[1] = pages[sp.new_ptr].idx[0]
       /\ root.cell[0].count >= 1
       /\ root.cell[1].count >= 1
       /\ root.cell[0].count + root.cell[1].count = sp.split_idx + sp.new_count + 1

(* C12: at the end of an insert call that split the root page, the root is *)
(* a new interior page with two entries, the old root page and the new     *)
(* sibling, each with its minimum key and its count, and the depth is one  *)
(* more than before the call.                                              *)
C12_RootWrapped ==
    [][(ret'.op = "insert" /\ ret'.kind = "ok" /\ RootSplit(ret')) =>
          /\ tree_depth' = tree_depth + 1
          /\ WrapsRoot(RootSplitOf(ret))']_vars

(* C13: every page reached from the root after tree_depth - d steps down   *)
(* (d its height above the leaves) is a leaf page exactly when d = 0: the  *)
(* root page is a leaf exactly at depth 0, and no leaf page is read as an  *)
(* interior page nor an interior page as a leaf.                           *)
C13_DepthMatchesStructure ==
    /\ IsPage(Here, tree_root.ptr)
    /\ \A e \in 1..Len(TreePages) :
          pages[TreePages[e].node.ptr].leaf <=> (TreePages[e].depth = 0)

(* the keys held in the leaves of the subtree of n, depth levels above them *)
SubtreeKeys(n, depth) ==
    LET below == pages_below(Here, n, depth) IN
    UNION {KeysOf(below[j].node.ptr, below[j].node.count) :
              j \in {m \in 1..Len(below) : below[m].depth = 0}}

(* C14: the key at position i of every interior page is the minimum key    *)
(* held in the subtree of child i.                                         *)
C14_FenceKeys ==
    \A e \in 1..Len(TreePages) :
        LET n == TreePages[e].node
            depth == TreePages[e].depth
        IN depth > 0 =>
              \A i \in 0..(n.count - 1) :
                  LET keys == SubtreeKeys(ReadNode(Here, node_to_subnode(n.ptr, i)), depth - 1) IN
                  /\ pages[n.ptr].idx[i] \in keys
                  /\ \A k \in keys : pages[n.ptr].idx[i] <= k

(* C15: the root descriptor, and every child descriptor the code reads in  *)
(* a page it takes for an interior page, counts at most capacity entries.  *)
C15_CapacityBound ==
    /\ tree_root.count <= Cap
    /\ \A e \in 1..Len(TreePages) :
          LET n == TreePages[e].node IN
          TreePages[e].depth > 0 =>
              \A i \in 0..(n.count - 1) : ReadNode(Here, node_to_subnode(n.ptr, i)).count <= Cap

(* the indexes of the key array that the run scans of split_node read *)
RECURSIVE SkipLeadingReads(_, _)
SkipLeadingReads(p_idx, split_idx) ==
    {split_idx, 0}
        \cup (IF p_idx[split_idx] = p_idx[0] THEN SkipLeadingReads(p_idx, split_idx + 1) ELSE {})

RECURSIVE BackBeforeReads(_, _)
BackBeforeReads(p_idx, split_idx) ==
    IF split_idx > 0
    THEN {split_idx, split_idx - 1}
            \cup (IF p_idx[split_idx] = p_idx[split_idx - 1]
                  THEN BackBeforeReads(p_idx, split_idx - 1) ELSE {})
    ELSE {}

split_reads(p_idx, count) ==
    LET mid == count \div 2 IN
    {mid, 0}
        \cup (IF p_idx[mid] = p_idx[0]
              THEN {count - 1, 0}
                      \cup (IF p_idx[count - 1] # p_idx[0] THEN SkipLeadingReads(p_idx, mid) ELSE {})
              ELSE BackBeforeReads(p_idx, mid))

(* C16: every find and insert call returns: a slot, not-found, or the      *)
(* allocation failure; and the run scans of every split_node of the call   *)
(* read keys at indexes in [0, count) only.                                *)
C16_CallsReturn ==
    /\ ret.res.kind \in {"slot", "null", "thrown"}
    /\ \A j \in 1..Len(ret.splits) :
          LET sp == ret.splits[j]
              count == sp.split_idx + sp.new_count
          IN split_reads([n \in Slots |-> IF n < count THEN sp.before[n] ELSE 0], count)
                 \subseteq 0..(count - 1)

(* ---------------------------------------------------------------------- *)
(* binsearch_index and the split point of split_node on sorted pages       *)

(* the targets searched for: every value from 0 to above the largest key *)
SearchKeys == 0..(KeyOrder[NumKeys] + 1)

(* the first count words of ary are non-decreasing *)
IsSorted(ary, count) == \A j \in 1..(count - 1) : ary[j - 1] <= ary[j]

IndexResult(i) == [kind |-> "index", page |-> 1, i |-> i]

(* one page holding count entries in non-decreasing key order; the words   *)
(* past count are arbitrary                                                *)
InitPage ==
    /\ \E ary \in [Slots -> FindKeys], count \in 0..Cap :
          /\ IsSorted(ary, count)
          /\ pages = <<[FreshPage(TRUE, 0) EXCEPT !.idx = ary]>>
          /\ tree_root = t_node(1, count)
    /\ tree_depth = 0
    /\ cast = t_node(Unread, 0)
    /\ inserted = [k \in Keys |-> 0]
    /\ failed = FALSE
    /\ ret = Returned("new", 0, 0, "ok", NullResult, <<>>)
    /\ crashed = FALSE

(* binsearch_index(value, p_idx, count) on the page *)
Search(value) ==
    /\ ret' = Returned("binsearch", value, 0, "ok",
                       IndexResult(binsearch_index(value, node_to_idx(Here, tree_root.ptr),
                                                   tree_root.count)),
                       <<>>)
    /\ UNCHANGED <<pages, tree_root, tree_depth, cast, inserted, failed, crashed>>

(* the split index split_node computes for the page, which is full (lines  *)
(* 246, 297: split_node is called when count >= max_entry_per_node)        *)
SplitPoint ==
    /\ tree_root.count >= max_entry_per_node
    /\ ret' = Returned("split_index", 0, 0, "ok",
                       IndexResult(split_index(node_to_idx(Here, tree_root.ptr), tree_root.count)),
                       <<>>)
    /\ UNCHANGED <<pages, tree_root, tree_depth, cast, inserted, failed, crashed>>

HalfResult(ptr) == [kind |-> "half", page |-> ptr, i |-> 0]

(* lines 246-252 and 297-303 on the page, which is full: split_node, then   *)
(* the choice of the node the pending entry with the given key goes to. The *)
(* call is evaluated and its choice kept; splits holds what the split did.  *)
ChooseHalf(is_leaf, key) ==
    /\ tree_root.count >= max_entry_per_node
    /\ \E s \in split_node(WriteNode(Here, LocalLoc(1), NoNode), RootLoc, LocalLoc(1), is_leaf) :
          /\ s.kind = "ok"
          /\ ret' = Returned("choose_half", key, 0, "ok",
                             HalfResult(ReadNode(s.st,
                                 chosen_half(is_leaf, key,
                                             node_to_idx(s.st, ReadNode(s.st, LocalLoc(1)).ptr)[0],
                                             RootLoc, LocalLoc(1))).ptr),
                             s.split)
    /\ UNCHANGED <<pages, tree_root, tree_depth, cast, inserted, failed, crashed>>

NextPage ==
    \/ \E value \in SearchKeys : Search(value)
    \/ SplitPoint
    \/ \E is_leaf \in BOOLEAN, key \in SearchKeys : ChooseHalf(is_leaf, key)

SpecPage == InitPage /\ [][NextPage]_vars

(* the key array and count of the page, and the index the last call gave *)
Ary == pages[1].idx
Count == tree_root.count
Got == ret.res.i

C18_SplitPointRule ==
    ret.op = "split_index" =>
        LET mid == Count \div 2 IN
        /\ Got \in 1..(Count - 1)
        /\ IF Ary[mid] = Ary[0] /\ Ary[Count - 1] # Ary[0]
           THEN /\ Ary[Got] # Ary[0]
                /\ \A j \in 0..(Got - 1) : Ary[j] = Ary[0]
           ELSE IF Ary[Count - 1] = Ary[0]
           THEN Got = mid
           ELSE /\ Ary[Got] = Ary[mid]
                /\ Got <= mid
                /\ Ary[Got - 1] # Ary[mid]

(* C18 witness: the split index was moved off count / 2, back to the start *)
(* of the run the midpoint lies in                                         *)
C18_MovedBack == ret.op = "split_index" /\ Got < Count \div 2

(* C19: after split_node splits a page at index s, the keys left in the    *)
(* original page are its former keys [0, s) and the keys of the new        *)
(* sibling are its former keys [s, count), in the same order.              *)
C19_SplitPartition ==
    \A j \in 1..Len(Splits) :
        LET sp == Splits[j] IN
        /\ \A n \in 0..(sp.new_count - 1) : sp.new_idx[n] = sp.before[sp.split_idx + n]
        /\ sp.split_idx + sp.new_count = Cardinality(DOMAIN sp.before)

(* the last insert call ran on the root leaf: unsplit, or split by it *)
IntoRootLeaf ==
    \/ tree_depth = 0 /\ Splits = <<>>
    \/ Len(Splits) = 1 /\ Splits[1].is_leaf /\ Splits[1].loc = RootLoc

(* the leaf the last insert call put its entry into, when the call ran at  *)
(* depth 0: the root leaf, or the half of it the call chose                *)
InsertedLeaf ==
    IF Splits = <<>> THEN tree_root
    ELSE IF ret.res.page = Splits[1].new_ptr THEN RightOf(Splits[1]) ELSE LeftOf(Splits[1])

(* C20: the entry insert placed in a leaf comes after every entry of the   *)
(* leaf with a smaller or equal key (so after the run of its own key) and  *)
(* before every entry with a larger key.                                   *)
C20_InsertedAfterRun ==
    (ret.op = "insert" /\ ret.kind = "ok" /\ IntoRootLeaf) =>
        LET leaf == InsertedLeaf
            i == ret.res.i
        IN /\ leaf.ptr = ret.res.page
           /\ pages[leaf.ptr].idx[i] = ret.idx
           /\ \A j \in 0..(i - 1) : pages[leaf.ptr].idx[j] <= ret.idx
           /\ \A j \in (i + 1)..(leaf.count - 1) : pages[leaf.ptr].idx[j] > ret.idx

(* the step is an insert call that returned a slot of the root leaf, which *)
(* had room: no page was split                                             *)
IntoRoomyRootLeaf ==
    /\ ret'.op = "insert" /\ ret'.kind = "ok"
    /\ tree_depth = 0 /\ tree_root.count < Cap
    /\ ret'.res.page = tree_root.ptr

(* C21: when insert places a key at position i of a leaf holding count     *)
(* entries, every former entry at a position below i is unchanged, every   *)
(* former entry at a position j >= i is afterwards at position j + 1 with  *)
(* the same key and the same value, and the leaf's count grows by one.     *)
C21_ShiftKeepsEntries ==
    [][IntoRoomyRootLeaf =>
          LET p == tree_root.ptr
              i == ret'.res.i
          IN /\ tree_root'.ptr = p
             /\ tree_root'.count = tree_root.count + 1
             /\ \A j \in 0..(i - 1) :
                   /\ pages'[p].idx[j] = pages[p].idx[j]
                   /\ pages'[p].cell[j] = pages[p].cell[j]
             /\ \A j \in i..(tree_root.count - 1) :
                   /\ pages'[p].idx[j + 1] = pages[p].idx[j]
                   /\ pages'[p].cell[j + 1] = pages[p].cell[j]]_vars

(* the splits of the call r that split a child of the page ptr and gave it *)
(* a new sibling                                                           *)
ChildSplits(r, ptr) ==
    {j \in 1..Len(r.splits) : r.splits[j].loc.page = ptr /\ r.splits[j].new_ptr # NULL}

(* the page of descriptor n holds, at its sorted position, an entry for    *)
(* the sibling of the split sp: its pointer, its count, its first key      *)
HoldsSibling(pg, n, sp) ==
    \E i \in 0..(n.count - 1) :
        /\ i < Cap
        /\ pg[n.ptr].cell[i].ptr = sp.new_ptr
        /\ pg[n.ptr].cell[i].count \in {sp.new_count, sp.new_count + 1}
        /\ pg[n.ptr].idx[i] = pg[sp.new_ptr].idx[0]
        /\ \A m \in 0..(i - 1) : pg[n.ptr].idx[m] <= pg[n.ptr].idx[i]
        /\ \A m \in (i + 1)..(n.count - 1) : m < Cap => pg[n.ptr].idx[i] <= pg[n.ptr].idx[m]

(* C22: when the recursive insert into a child of an interior page reports *)
(* that the child was split, at the end of the call the interior page      *)
(* holds one more entry than before: the new sibling's descriptor under    *)
(* the sibling's first key, at its sorted position (so the sibling is      *)
(* reachable from the root). Stated for the root page one level above the  *)
(* leaves.                                                                 *)
C22_SiblingLinked ==
    [][(ret'.op = "insert" /\ ret'.kind = "ok" /\ tree_depth = 1) =>
          \A j \in ChildSplits(ret', tree_root.ptr) :
              /\ tree_root'.ptr = tree_root.ptr
              /\ tree_root'.count = tree_root.count + 1
              /\ HoldsSibling(pages', tree_root', ret'.splits[j])]_vars

(* C23: when a full page was split before adding a pending entry (the key  *)
(* at a leaf, the new child's fence key at an interior page), the entry    *)
(* goes to the new sibling exactly when its key is greater than or equal   *)
(* to the sibling's first key, and to the original page otherwise; for     *)
(* leaf pages and interior pages alike.                                    *)
C23_HalfByFenceKey ==
    ret.op = "choose_half" =>
        LET sp == ret.splits[1] IN
        /\ ret.res.page \in {sp.old_ptr, sp.new_ptr}
        /\ (ret.res.page = sp.new_ptr) <=> (ret.idx >= sp.new_idx[0])

====
